---- MODULE Spec2Model ----
(***************************************************************************)
(* beat-canvas: the staged export pipeline (ExportService, CanvasRecorder, *)
(* FfmpegTranscoder) as a state machine.                                   *)
(*                                                                         *)
(* The host is single-threaded: the code between two awaits of export()    *)
(* runs to completion.  pc names the position of the current export() run; *)
(* the positions in Suspended are the awaits, and only there can the host  *)
(* run anything else (cancel(), the recorder's capture and its events, the *)
(* transcoding engine's progress events).                                  *)
(*                                                                         *)
(* Times are integers in milliseconds; a progress value or a frame time is *)
(* a fraction <<numerator, denominator>>.                                  *)
(***************************************************************************)
EXTENDS Integers, Sequences, FiniteSets, TLC

\* ---------------------------------------------------------------- bounds
MaxClipMs == 200        \* longest clip drawn for the config (6 frames)
MaxRuns == 2            \* export() calls made one after the other
MaxEngineProgress == 1  \* progress events the engine fires per exec

\* ------------------------------------------------------ program constants
FPS == 30
YieldEvery == 5

Undefined == -1         \* an absent optional field (currentFrame, totalFrames)

\* a blob or file content: its container kind, the captured frames of its
\* video track and the clip range of its audio track
Blob(kind, video, audio) == [kind |-> kind, video |-> video, audio |-> audio]
NoBlob == Blob("none", <<>>, <<>>)
NoFile == NoBlob        \* a path that does not exist in the engine's file system
Partial == Blob("partial", <<>>, <<>>)
None == "none"          \* no warning

FileNames == {"video.webm", "audio.wav", "output.mp4", "output.webm"}

WarnWebm == "MP4 encoding unavailable. Exported as WebM instead."
WarnNoAudio == "Audio muxing failed. Video exported without audio."
WarnNoFFmpeg == "FFmpeg unavailable. Video exported without audio."

ErrCancelled == "Export cancelled"
ErrNoRecorder == "MediaRecorder not supported"
ErrCollaborator == "collaborator exception"

\* ----------------------------------------------------------- pure helpers
CeilDiv(a, b) == IF a % b = 0 THEN a \div b ELSE (a \div b) + 1

\* Math.ceil(clipDuration * FPS), clipDuration in milliseconds
TotalFrames(inTime, outTime) == CeilDiv((outTime - inTime) * FPS, 1000)

\* ReactiveFrame i of the analysed clip (0-based index i); any frame with
\* non-zero signals, so that it differs from the zeroed default
AnalysedFrame(i) ==
  [time |-> <<i, FPS>>, bass |-> 1, mid |-> 1, treble |-> 1, amplitude |-> 1,
   kick |-> TRUE, onset |-> TRUE, kickIntensity |-> 1]

DefaultFrame(fi) ==
  [time |-> <<fi, FPS>>, bass |-> 0, mid |-> 0, treble |-> 0, amplitude |-> 0,
   kick |-> FALSE, onset |-> FALSE, kickIntensity |-> 0]

SelectFrameNoDefault(frames, fi) ==
  IF fi < Len(frames) THEN frames[fi + 1] ELSE frames[Len(frames)]

\* config.reactiveFrames[f] ?? { time, bass: 0, ... }
SelectFrame(frames, fi) ==
  IF fi < Len(frames) THEN frames[fi + 1] ELSE DefaultFrame(fi)

\* extractAudioSegment(buffer, inTime, outTime): the segment it encodes
ExtractAudioSegment(inTime, outTime) == Blob("wav", <<>>, <<inTime, outTime>>)

\* the output an exec writes from the two input files
Mux(container, video, audio) == Blob(container, video.video, audio.audio)

ExtensionSwapped(format) == IF format = "mp4" THEN "webm" ELSE "mp4"

\* result.format === "mp4" ? "mp4" : "webm"
Extension(format) == IF format = "mp4" THEN "mp4" ELSE "webm"

\* return { blob, format: "mp4" }
Mp4Result(blob) == [blob |-> blob, format |-> "mp4", warning |-> None]

WebmResultNoWarning(blob) == [blob |-> blob, format |-> "webm", warning |-> None]

\* return { blob, format: "webm", warning: "MP4 encoding unavailable..." }
WebmResult(blob) == [blob |-> blob, format |-> "webm", warning |-> WarnWebm]

\* return { blob: videoBlob, format: "webm", warning: "Audio muxing failed..." }
VideoOnlyResult(blob) == [blob |-> blob, format |-> "webm", warning |-> WarnNoAudio]

\* transcodeToMp4 has not settled / its promise rejected
NoTranscode == [blob |-> NoBlob, format |-> "", warning |-> None]
Rejected == [blob |-> NoBlob, format |-> "rejected", warning |-> None]

OuterCatchRethrow(blob) == Rejected

\* the outer catch of transcodeToMp4
OuterCatch(blob) == [blob |-> blob, format |-> "webm", warning |-> WarnNoFFmpeg]

\* Math.min(progress, 1) on a fraction
MinOne(p) == IF p[1] > p[2] THEN <<1, 1>> ELSE p

\* the progress values the engine may report
EngineProgressValues == {<<-1, 2>>, <<1, 2>>, <<3, 2>>}

PreparingCancelCheckSkipped(c) == FALSE

\* if (this.cancelled) { cleanup; throw } after the audio is extracted
PreparingCancelCheck(c) == c

\* ----------------------------------------------------------------- state
VARIABLES
  config,         \* the ExportConfig snapshot
  runsAllowed,    \* how many times the user starts an export
  run,            \* number of export() calls made so far
  pc,             \* position of the current export() run
  cancelled,      \* ExportService.cancelled
  recorder,       \* ExportService.recorder: "null" or "set"
  exportRenderer, \* ExportService.exportRenderer: "null" or "set"
  tmCurrent,      \* TemplateManager.current: "null" or "set"
  overlayScene,   \* OverlaySystem.scene: "null" or "set"
  disposals,      \* dispose() calls made on template, overlay, renderer
  f,              \* the render loop's frame index
  audioWav,       \* the encoded audio segment
  surface,        \* frame index last drawn on the canvas, -1 before any
  dirty,          \* the canvas was drawn since the recorder last captured it
  updates,        \* template.update calls of this run
  draws,          \* renderFrame calls of this run
  rec,            \* CanvasRecorder fields and its MediaRecorder
  observed,       \* frame indices the recorder captured in this run
  started,        \* CanvasRecorder.start returned true in this run
  videoBlob,      \* the blob recorder.stop() resolved with
  ffmpegLoaded,   \* ffmpegInstance && ffmpegInstance.loaded
  listeners,      \* runs whose progress listener is registered on the engine
  fs,             \* the engine's file system
  tresult,        \* value transcodeToMp4 settled with
  engineEvents,   \* progress events fired during the current exec
  log,            \* per run, the ExportProgress values given to onProgress
  outcome,        \* how the current run settled
  result,         \* the ExportResult of the current run
  cancelAt,       \* stage in which cancel() was first called in this run
  faults,         \* failures injected into this run
  attempted,      \* exec attempts made by this run's transcode
  hook,           \* the ExportState held by useExport
  serviceRef,     \* useExport's serviceRef.current: 0 for null, else the run it holds
  showExportModal, \* EditorPage's showExportModal
  rf,             \* a buildReactiveFrames call: its arguments and what it returned
  wav,            \* an extractAudioSegment call: its arguments and what it returned
  recents,        \* useTemplateFavorites' recents list
  recentUses,     \* the ids given to addRecent so far, oldest first
  trim,           \* a sanitizeClipRange call: its arguments and what it returned
  project,        \* the project store and a snapshot being restored into it
  overlap         \* two runs started through useExport that overlap in time

vars == <<config, runsAllowed, run, pc, cancelled, recorder, exportRenderer, tmCurrent,
          overlayScene, disposals, f, audioWav, surface, dirty, updates, draws,
          rec, observed, started, videoBlob, ffmpegLoaded, listeners, fs,
          tresult, engineEvents, log, outcome, result, cancelAt, faults,
          attempted, hook, serviceRef, showExportModal, rf, wav, recents, recentUses,
          trim, project, overlap>>

\* the variables of the export run and of the hook that started it
runVars == <<config, runsAllowed, run, pc, cancelled, recorder, exportRenderer, tmCurrent,
             overlayScene, disposals, f, audioWav, surface, dirty, updates, draws,
             rec, observed, started, videoBlob, ffmpegLoaded, listeners, fs,
             tresult, engineEvents, log, outcome, result, cancelAt, faults,
             attempted, hook>>

exportVars == <<runVars, serviceRef>>

\* the variables of the editor page outside the export run
editorVars == <<showExportModal, rf, wav, recents, recentUses, trim, project, overlap>>

Suspended ==
  {"awaitText", "awaitCover", "yield", "grace", "awaitStop",
   "t_load", "t_writeVideo", "t_writeAudio", "t_execMp4", "t_readMp4",
   "t_cleanMp4", "t_execWebm", "t_readWebm", "t_cleanWebm", "t_cleanFail"}

\* the ExportStage the run is in at position p
StageOf(p) ==
  IF p \in {"awaitText", "awaitCover", "prepared"} THEN "preparing"
  ELSE IF p \in {"loop", "yield", "grace", "awaitStop", "stopped"} THEN "rendering"
  ELSE IF p \in {"idle", "settled"} THEN "none"
  ELSE "transcoding"

NoResult == [blob |-> NoBlob, filename |-> <<0, "">>, format |-> "", duration |-> 0,
             warning |-> None]

NewRecorder == [recorder |-> "null", chunks |-> <<>>, resolveStop |-> FALSE,
                mrState |-> "none", mrBuffer |-> <<>>, stopPending |-> FALSE]

Progress(stage, p, cur, tot) ==
  [stage |-> stage, progress |-> p, currentFrame |-> cur, totalFrames |-> tot]

\* onProgress of run r is called with value v
Deliver(lg, r, v) == [lg EXCEPT ![r] = Append(@, v)]

\* ------------------------------------------------------------ useExport
\* a pure function that was not called
NotCalled == [pc |-> "idle"]

\* useState's initial ExportState, also what reset() sets
HookInitial ==
  [stage |-> "idle", progress |-> <<0, 1>>, message |-> "", currentFrame |-> Undefined,
   totalFrames |-> Undefined, result |-> NoResult, error |-> "null"]

\* startExport's first setState
HookPreparing == [HookInitial EXCEPT !.stage = "preparing", !.message = "Preparing..."]

\* the onProgress callback startExport gives to export(); the message of a
\* progress value is represented by its stage
HookOnProgress(prev, p) ==
  [prev EXCEPT !.stage = p.stage, !.progress = p.progress, !.message = p.stage,
               !.currentFrame = p.currentFrame, !.totalFrames = p.totalFrames]

\* startExport after export() resolved with res
HookResolved(res) ==
  [stage |-> "done", progress |-> <<1, 1>>, message |-> "Export complete!",
   currentFrame |-> Undefined, totalFrames |-> Undefined, result |-> res, error |-> "null"]

HookCatchInverted(prev, message) ==
  IF message = ErrCancelled
  THEN [prev EXCEPT !.stage = "error", !.message = message, !.error = message]
  ELSE HookInitial

\* startExport's catch block, export() having rejected with message
HookCatch(prev, message) ==
  IF message # ErrCancelled
  THEN [prev EXCEPT !.stage = "error", !.message = message, !.error = message]
  ELSE HookInitial

RECURSIVE HookApply(_, _)
\* the queued setState updaters of ps, applied in order
HookApply(prev, ps) ==
  IF ps = <<>> THEN prev ELSE HookApply(HookOnProgress(prev, Head(ps)), Tail(ps))

Configs ==
  { [inTime |-> i, outTime |-> i + d,
     reactiveFrames |-> [k \in 1..(TotalFrames(i, i + d) - m) |-> AnalysedFrame(k - 1)],
     coverArtUrl |-> c,
     options |-> [format |-> fmt]]
    : i \in {0, 17}, d \in {34, MaxClipMs}, m \in {0, 1}, c \in BOOLEAN,
      fmt \in {"mp4", "webm"} }

totalFrames == TotalFrames(config.inTime, config.outTime)
clipDuration == config.outTime - config.inTime

InitWith(cfgs, allowed) ==
  /\ config \in cfgs
  /\ runsAllowed = allowed
  /\ run = 0
  /\ pc = "idle"
  /\ cancelled = FALSE
  /\ recorder = "null"
  /\ exportRenderer = "null"
  /\ tmCurrent = "null"
  /\ overlayScene = "null"
  /\ disposals = [template |-> 0, overlay |-> 0, renderer |-> 0]
  /\ f = 0
  /\ audioWav = NoBlob
  /\ surface = -1
  /\ dirty = FALSE
  /\ updates = <<>>
  /\ draws = <<>>
  /\ rec = NewRecorder
  /\ observed = <<>>
  /\ started = FALSE
  /\ videoBlob = NoBlob
  /\ ffmpegLoaded = FALSE
  /\ listeners = {}
  /\ fs = [n \in FileNames |-> NoFile]
  /\ tresult = NoTranscode
  /\ engineEvents = 0
  /\ log = [r \in 1..MaxRuns |-> <<>>]
  /\ outcome = "none"
  /\ result = NoResult
  /\ cancelAt = "none"
  /\ faults = {}
  /\ attempted = {}
  /\ hook = HookInitial
  /\ serviceRef = 0

OverlapRuns == {1, 2}
NoContent == <<>>        \* a file that does not exist, a value not there yet

\* no run started yet, the engine's file system empty
OverlapIdle ==
  [pc |-> [r \in OverlapRuns |-> "new"],
   cancelled |-> [r \in OverlapRuns |-> FALSE],
   fs |-> [n \in FileNames |-> NoContent],
   todo |-> [r \in OverlapRuns |-> <<>>],
   reads |-> [r \in OverlapRuns |-> <<>>],
   blob |-> [r \in OverlapRuns |-> NoContent],
   cancels |-> 0,
   missed |-> {}]

\* the editor page with the export dialog closed and nothing else under way
EditorIdle ==
  /\ showExportModal = FALSE
  /\ rf = NotCalled
  /\ wav = NotCalled
  /\ recents = <<>>
  /\ recentUses = <<>>
  /\ trim = NotCalled
  /\ project = NotCalled
  /\ overlap = OverlapIdle

\* one export
Init == InitWith(Configs, 1) /\ EditorIdle

\* MaxRuns exports of the shortest clip (with cover art), one after the other
InitRuns ==
  /\ EditorIdle
  /\ InitWith({c \in Configs : /\ c.inTime = 0 /\ c.outTime - c.inTime < MaxClipMs
                               /\ c.coverArtUrl
                               /\ c.options.format = "mp4"
                               /\ Len(c.reactiveFrames) = TotalFrames(c.inTime, c.outTime)},
              MaxRuns)

\* ------------------------------------------------------- CanvasRecorder
\* MediaRecorder.stop(): the state becomes inactive and the stop event is queued
MediaRecorderStop(r) ==
  IF r.mrState = "recording"
  THEN [r EXCEPT !.mrState = "inactive", !.stopPending = TRUE]
  ELSE r

\* CanvasRecorder.start, a mime type being supported
RecStart(r) ==
  [r EXCEPT !.recorder = "set", !.chunks = <<>>, !.mrState = "recording"]

\* CanvasRecorder.stop
RecStop(r) ==
  LET r1 == [r EXCEPT !.resolveStop = TRUE]
  IN  IF r1.recorder = "set" THEN MediaRecorderStop(r1) ELSE r1

\* CanvasRecorder.cancel
RecCancel(r) ==
  LET r1 == IF r.recorder = "set" /\ r.mrState = "recording"
            THEN MediaRecorderStop(r) ELSE r
  IN  [r1 EXCEPT !.chunks = <<>>, !.resolveStop = FALSE, !.recorder = "null"]

\* ------------------------------------------------------ ExportService
\* ExportService.cleanup(templateManager, overlaySystem)
Cleanup ==
  /\ tmCurrent' = "null"
  /\ overlayScene' = "null"
  /\ exportRenderer' = "null"
  /\ disposals' = [template |-> disposals.template + (IF tmCurrent = "set" THEN 1 ELSE 0),
                   overlay |-> disposals.overlay + 1,
                   renderer |-> disposals.renderer + (IF exportRenderer = "set" THEN 1 ELSE 0)]

NoCleanup == UNCHANGED <<tmCurrent, overlayScene, exportRenderer, disposals>>

\* the promise export() returned rejects with message o
Reject(o) ==
  /\ pc' = "settled"
  /\ outcome' = o
  /\ result' = NoResult

RECURSIVE Delivered(_, _, _)
\* the values lg2 holds and lg1 does not, for runs r and later: the
\* onProgress calls of a step, in the order the step made them
Delivered(lg1, lg2, r) ==
  IF r > MaxRuns THEN <<>>
  ELSE SubSeq(lg2[r], Len(lg1[r]) + 1, Len(lg2[r])) \o Delivered(lg1, lg2, r + 1)

\* useExport follows the run: startExport sets 'preparing' and
\* serviceRef.current before it calls export(), and every onProgress call
\* updates the state
Hooked ==
  /\ LET started1 == IF run' # run THEN HookPreparing ELSE hook
     IN hook' = HookApply(started1, Delivered(log, log', 1))
  /\ serviceRef' = IF run' # run THEN run' ELSE serviceRef
  /\ UNCHANGED editorVars

renderVars == <<f, surface, dirty, updates, draws, observed>>
engineVars == <<ffmpegLoaded, listeners, fs, tresult, engineEvents, attempted>>

\* export(config, onProgress), up to its first await (overlaySystem.updateText)
StartExport ==
  /\ pc \in {"idle", "settled"}
  /\ serviceRef = 0
  /\ run < runsAllowed
  /\ run' = run + 1
  /\ cancelled' = FALSE
  /\ recorder' = "null"
  /\ log' = Deliver(log, run + 1, Progress("preparing", <<0, 1>>, Undefined, Undefined))
  /\ exportRenderer' = "set"
  /\ tmCurrent' = "set"
  /\ disposals' = [template |-> 0, overlay |-> 0, renderer |-> 0]
  /\ f' = 0
  /\ audioWav' = NoBlob
  /\ surface' = -1
  /\ dirty' = FALSE
  /\ updates' = <<>>
  /\ draws' = <<>>
  /\ rec' = NewRecorder
  /\ observed' = <<>>
  /\ started' = FALSE
  /\ videoBlob' = NoBlob
  /\ tresult' = NoTranscode
  /\ engineEvents' = 0
  /\ attempted' = {}
  /\ cancelAt' = "none"
  /\ \E initOk \in BOOLEAN :
       IF initOk
       THEN /\ overlayScene' = "set"
            /\ pc' = "awaitText"
            /\ outcome' = "none"
            /\ result' = NoResult
            /\ faults' = {}
       ELSE /\ overlayScene' = "null"
            /\ Reject(ErrCollaborator)
            /\ faults' = {"init"}
  /\ UNCHANGED <<config, runsAllowed, ffmpegLoaded, listeners, fs>>
  /\ Hooked

\* await overlaySystem.updateText(config.overlayConfig) settles
TextDone ==
  /\ pc = "awaitText"
  /\ \E ok \in BOOLEAN :
       IF ok
       THEN /\ pc' = IF config.coverArtUrl THEN "awaitCover" ELSE "prepared"
            /\ UNCHANGED <<outcome, result, faults>>
       ELSE /\ Reject(ErrCollaborator)
            /\ faults' = faults \cup {"text"}
  /\ NoCleanup
  /\ UNCHANGED <<config, runsAllowed, run, cancelled, recorder, audioWav, rec, started, videoBlob,
                 log, cancelAt, renderVars, engineVars>>
  /\ Hooked

\* await overlaySystem.updateCoverArt(...) settles (it catches its own failures)
CoverDone ==
  /\ pc = "awaitCover"
  /\ pc' = "prepared"
  /\ NoCleanup
  /\ UNCHANGED <<config, runsAllowed, run, cancelled, recorder, audioWav, rec, started, videoBlob,
                 log, cancelAt, outcome, result, faults, renderVars, engineVars>>
  /\ Hooked

\* export() from extractAudioSegment to the start of the render loop
Prepared ==
  /\ pc = "prepared"
  /\ \E extractOk \in BOOLEAN, supported \in BOOLEAN :
       IF ~extractOk
       THEN /\ Reject(ErrCollaborator)
            /\ faults' = faults \cup {"extract"}
            /\ NoCleanup
            /\ UNCHANGED <<audioWav, recorder, rec, started, log>>
       ELSE /\ audioWav' = ExtractAudioSegment(config.inTime, config.outTime)
            /\ IF PreparingCancelCheck(cancelled)
               THEN /\ Cleanup
                    /\ Reject(ErrCancelled)
                    /\ UNCHANGED <<faults, recorder, rec, started, log>>
               ELSE /\ log' = Deliver(log, run, Progress("rendering", <<0, 1>>, 0, totalFrames))
                    /\ recorder' = "set"
                    /\ IF supported
                       THEN /\ rec' = RecStart(rec)
                            /\ started' = TRUE
                            /\ pc' = "loop"
                            /\ NoCleanup
                            /\ UNCHANGED <<outcome, result, faults>>
                       ELSE /\ Cleanup
                            /\ Reject(ErrNoRecorder)
                            /\ faults' = faults \cup {"mime"}
                            /\ UNCHANGED <<rec, started>>
  /\ UNCHANGED <<config, runsAllowed, run, cancelled, videoBlob, cancelAt, renderVars, engineVars>>
  /\ Hooked

\* one iteration of the render loop, up to its await or the next iteration
LoopStep ==
  /\ pc = "loop"
  /\ IF f >= totalFrames
     THEN /\ pc' = "grace"
          /\ NoCleanup
          /\ UNCHANGED <<rec, outcome, result, faults, renderVars>>
     ELSE IF cancelled
     THEN /\ rec' = RecCancel(rec)
          /\ Cleanup
          /\ Reject(ErrCancelled)
          /\ UNCHANGED <<faults, renderVars>>
     ELSE \E updateOk \in BOOLEAN :
          IF ~updateOk
          THEN /\ Reject(ErrCollaborator)
               /\ faults' = faults \cup {"update"}
               /\ NoCleanup
               /\ UNCHANGED <<rec, renderVars>>
          ELSE /\ updates' = Append(updates, [f |-> f,
                                              frame |-> SelectFrame(config.reactiveFrames, f),
                                              delta |-> <<1, FPS>>])
               /\ draws' = Append(draws, f)
               /\ surface' = f
               /\ dirty' = TRUE
               /\ IF f % YieldEvery = 0
                  THEN pc' = "yield" /\ f' = f
                  ELSE pc' = "loop" /\ f' = f + 1
               /\ NoCleanup
               /\ UNCHANGED <<rec, outcome, result, faults, observed>>
  /\ UNCHANGED <<config, runsAllowed, run, cancelled, recorder, audioWav, started, videoBlob, log,
                 cancelAt, engineVars>>
  /\ Hooked

\* the setTimeout(r, 0) of the loop fires: progress is reported, f++
YieldDone ==
  /\ pc = "yield"
  /\ log' = Deliver(log, run, Progress("rendering", <<f, totalFrames>>, f + 1, totalFrames))
  /\ f' = f + 1
  /\ pc' = "loop"
  /\ NoCleanup
  /\ UNCHANGED <<config, runsAllowed, run, cancelled, recorder, audioWav, surface, dirty, updates,
                 draws, observed, rec, started, videoBlob, outcome, result, cancelAt,
                 faults, engineVars>>
  /\ Hooked

\* the 200 ms grace wait ends: this.recorder.stop() is called and awaited
GraceDone ==
  /\ pc = "grace"
  /\ rec' = RecStop(rec)
  /\ pc' = "awaitStop"
  /\ NoCleanup
  /\ UNCHANGED <<config, runsAllowed, run, cancelled, recorder, audioWav, started, videoBlob, log,
                 outcome, result, cancelAt, faults, renderVars, engineVars>>
  /\ Hooked

\* ------------------------------------------------------------ the host
\* the canvas capture stream samples the canvas while the run is suspended
HostCapture ==
  /\ pc \in Suspended
  /\ rec.mrState = "recording"
  /\ dirty
  /\ rec' = [rec EXCEPT !.mrBuffer = Append(@, surface)]
  /\ observed' = Append(observed, surface)
  /\ dirty' = FALSE
  /\ NoCleanup
  /\ UNCHANGED <<config, runsAllowed, run, pc, cancelled, recorder, f, audioWav, surface, updates,
                 draws, started, videoBlob, log, outcome, result, cancelAt, faults,
                 engineVars>>
  /\ Hooked

\* the recorder's 100 ms timeslice elapses: recorder.ondataavailable
HostDataAvailable ==
  /\ pc \in Suspended
  /\ rec.mrState = "recording"
  /\ rec.mrBuffer # <<>>
  /\ rec' = [rec EXCEPT !.chunks = @ \o rec.mrBuffer, !.mrBuffer = <<>>]
  /\ NoCleanup
  /\ UNCHANGED <<config, runsAllowed, run, pc, cancelled, recorder, audioWav, started, videoBlob, log,
                 outcome, result, cancelAt, faults, renderVars, engineVars>>
  /\ Hooked

\* the queued stop of the MediaRecorder is delivered: ondataavailable with
\* the remaining data, then recorder.onstop
HostStopEvent ==
  /\ pc \in Suspended
  /\ rec.stopPending
  /\ LET blob == Blob("video", rec.chunks \o rec.mrBuffer, <<>>)
     IN  /\ rec' = [rec EXCEPT !.stopPending = FALSE, !.mrBuffer = <<>>, !.chunks = <<>>]
         /\ IF rec.resolveStop /\ pc = "awaitStop"
            THEN videoBlob' = blob /\ pc' = "stopped"
            ELSE UNCHANGED <<videoBlob, pc>>
  /\ NoCleanup
  /\ UNCHANGED <<config, runsAllowed, run, cancelled, recorder, audioWav, started, log, outcome,
                 result, cancelAt, faults, renderVars, engineVars>>
  /\ Hooked

\* ExportService.cancel(), called by the user while the run is suspended
Cancel ==
  /\ pc \in Suspended
  /\ cancelled' = TRUE
  /\ rec' = IF recorder = "set" THEN RecCancel(rec) ELSE rec
  /\ cancelAt' = IF cancelAt = "none" THEN StageOf(pc) ELSE cancelAt
  /\ NoCleanup
  /\ UNCHANGED <<config, runsAllowed, run, pc, recorder, audioWav, started, videoBlob, log, outcome,
                 result, faults, renderVars, engineVars>>
  /\ Hooked

\* export() after `await this.recorder.stop()`, up to the first await of
\* transcodeToMp4
AfterStop ==
  /\ pc = "stopped"
  /\ recorder' = "null"
  /\ IF cancelled
     THEN /\ Cleanup
          /\ Reject(ErrCancelled)
          /\ UNCHANGED <<log, listeners>>
     ELSE /\ log' = Deliver(log, run, Progress("transcoding", <<0, 1>>, Undefined, Undefined))
          /\ IF ffmpegLoaded
             THEN listeners' = listeners \cup {run} /\ pc' = "t_writeVideo"
             ELSE listeners' = listeners /\ pc' = "t_load"
          /\ NoCleanup
          /\ UNCHANGED <<outcome, result>>
  /\ UNCHANGED <<config, runsAllowed, run, cancelled, audioWav, rec, started, videoBlob, cancelAt,
                 faults, renderVars, ffmpegLoaded, fs, tresult, engineEvents, attempted>>
  /\ Hooked

\* ---------------------------------------------------- FfmpegTranscoder
transcodeVars == <<config, runsAllowed, run, cancelled, recorder, audioWav, rec, started, videoBlob,
                   outcome, result, cancelAt, renderVars>>

\* getFFmpeg(): ffmpeg.load settles; on success the progress listener is added
TLoad ==
  /\ pc = "t_load"
  /\ \E ok \in BOOLEAN :
       IF ok
       THEN /\ ffmpegLoaded' = TRUE
            /\ listeners' = listeners \cup {run}
            /\ pc' = "t_writeVideo"
            /\ UNCHANGED <<tresult, faults>>
       ELSE /\ tresult' = OuterCatch(videoBlob)
            /\ pc' = "t_return"
            /\ faults' = faults \cup {"load"}
            /\ UNCHANGED <<ffmpegLoaded, listeners>>
  /\ NoCleanup
  /\ UNCHANGED <<transcodeVars, fs, engineEvents, attempted, log>>
  /\ Hooked

\* await ffmpeg.writeFile("video.webm", await fetchFile(videoBlob))
TWriteVideo ==
  /\ pc = "t_writeVideo"
  /\ \E ok \in BOOLEAN :
       IF ok
       THEN /\ fs' = [fs EXCEPT !["video.webm"] = videoBlob]
            /\ pc' = "t_writeAudio"
            /\ UNCHANGED <<tresult, faults>>
       ELSE /\ tresult' = OuterCatch(videoBlob)
            /\ pc' = "t_return"
            /\ faults' = faults \cup {"writeVideo"}
            /\ UNCHANGED fs
  /\ NoCleanup
  /\ UNCHANGED <<transcodeVars, ffmpegLoaded, listeners, engineEvents, attempted, log>>
  /\ Hooked

\* await ffmpeg.writeFile("audio.wav", new Uint8Array(audioData))
TWriteAudio ==
  /\ pc = "t_writeAudio"
  /\ \E ok \in BOOLEAN :
       IF ok
       THEN /\ fs' = [fs EXCEPT !["audio.wav"] = audioWav]
            /\ pc' = "t_execMp4"
            /\ UNCHANGED <<tresult, faults>>
       ELSE /\ tresult' = OuterCatch(videoBlob)
            /\ pc' = "t_return"
            /\ faults' = faults \cup {"writeAudio"}
            /\ UNCHANGED fs
  /\ NoCleanup
  /\ UNCHANGED <<transcodeVars, ffmpegLoaded, listeners, engineEvents, attempted, log>>
  /\ Hooked

\* an exec of the engine settles: it resolves having written `out`, or it
\* throws, leaving nothing or a partial output behind
Exec(at, container, out, next, onFail, fault) ==
  /\ pc = at
  /\ attempted' = attempted \cup {container}
  /\ engineEvents' = 0
  /\ \E ok \in BOOLEAN, partial \in BOOLEAN :
       IF ok
       THEN /\ fs' = [fs EXCEPT ![out] = Mux(container, fs["video.webm"], fs["audio.wav"])]
            /\ pc' = next
            /\ UNCHANGED faults
       ELSE /\ fs' = IF partial THEN [fs EXCEPT ![out] = Partial] ELSE fs
            /\ pc' = onFail
            /\ faults' = faults \cup {fault}
  /\ NoCleanup
  /\ UNCHANGED <<transcodeVars, ffmpegLoaded, listeners, tresult, log>>
  /\ Hooked

\* await ffmpeg.readFile(out) settles; the blob is built from a copy of the data
Read(at, out, next, onFail, fault) ==
  /\ pc = at
  /\ \E ok \in BOOLEAN :
       IF ok /\ fs[out] # NoFile
       THEN /\ tresult' = [NoTranscode EXCEPT !.blob = fs[out]]
            /\ pc' = next
            /\ UNCHANGED faults
       ELSE /\ pc' = onFail
            /\ faults' = faults \cup {fault}
            /\ UNCHANGED tresult
  /\ NoCleanup
  /\ UNCHANGED <<transcodeVars, ffmpegLoaded, listeners, fs, engineEvents, attempted, log>>
  /\ Hooked

\* cleanupFiles(ffmpeg, files): each deleteFile may throw, which is ignored
CleanupFiles(files, failed) ==
  [n \in FileNames |-> IF n \in files /\ n \notin failed THEN NoFile ELSE fs[n]]

\* await cleanupFiles(...) and the return statement that follows it
Clean(at, files, res) ==
  /\ pc = at
  /\ \E failed \in SUBSET files :
       /\ fs' = CleanupFiles(files, failed)
       /\ faults' = IF failed = {} THEN faults ELSE faults \cup {"delete"}
  /\ tresult' = res
  /\ pc' = "t_return"
  /\ NoCleanup
  /\ UNCHANGED <<transcodeVars, ffmpegLoaded, listeners, engineEvents, attempted, log>>
  /\ Hooked

TExecMp4 == Exec("t_execMp4", "mp4", "output.mp4", "t_readMp4", "t_execWebm", "execMp4")
TReadMp4 == Read("t_readMp4", "output.mp4", "t_cleanMp4", "t_execWebm", "readMp4")
TCleanMp4 == Clean("t_cleanMp4", {"video.webm", "audio.wav", "output.mp4"},
                   Mp4Result(tresult.blob))
TExecWebm == Exec("t_execWebm", "webm", "output.webm", "t_readWebm", "t_cleanFail", "execWebm")
TReadWebm == Read("t_readWebm", "output.webm", "t_cleanWebm", "t_cleanFail", "readWebm")
TCleanWebm == Clean("t_cleanWebm", {"video.webm", "audio.wav", "output.webm"},
                    WebmResult(tresult.blob))
TCleanFail == Clean("t_cleanFail", {"video.webm", "audio.wav"}, VideoOnlyResult(videoBlob))

\* the engine emits a progress event during an exec: every listener ever
\* registered with ffmpeg.on("progress", ...) is called
HostEngineProgress ==
  /\ pc \in {"t_execMp4", "t_execWebm"}
  /\ engineEvents < MaxEngineProgress
  /\ engineEvents' = engineEvents + 1
  /\ \E p \in EngineProgressValues :
       log' = [r \in 1..MaxRuns |->
                 IF r \in listeners
                 THEN Append(log[r], Progress("transcoding", MinOne(p), Undefined, Undefined))
                 ELSE log[r]]
  /\ NoCleanup
  /\ UNCHANGED <<transcodeVars, pc, ffmpegLoaded, listeners, fs, tresult, attempted, faults>>
  /\ Hooked

\* export() after `await transcodeToMp4(...)`
Finish ==
  /\ pc = "t_return"
  /\ IF tresult = Rejected
     THEN /\ Reject(ErrCollaborator)
          /\ NoCleanup
          /\ UNCHANGED log
     ELSE /\ Cleanup
          /\ \E now \in 1..2 :
               result' = [blob |-> tresult.blob,
                          filename |-> <<now, Extension(tresult.format)>>,
                          format |-> tresult.format,
                          duration |-> clipDuration,
                          warning |-> tresult.warning]
          /\ log' = Deliver(log, run, Progress("done", <<1, 1>>, Undefined, Undefined))
          /\ pc' = "settled"
          /\ outcome' = "done"
  /\ UNCHANGED <<config, runsAllowed, run, cancelled, recorder, audioWav, rec, started, videoBlob,
                 cancelAt, faults, renderVars, engineVars>>
  /\ Hooked

\* startExport after `await service.export(...)`: the try block's setState
\* or the catch block, then the finally block
StartExportSettled ==
  /\ pc = "settled"
  /\ serviceRef = run
  /\ serviceRef # 0
  /\ hook' = IF outcome = "done" THEN HookResolved(result) ELSE HookCatch(hook, outcome)
  /\ serviceRef' = 0
  /\ UNCHANGED <<config, runsAllowed, run, pc, cancelled, recorder, exportRenderer, tmCurrent,
                 overlayScene, disposals, f, audioWav, surface, dirty, updates, draws,
                 rec, observed, started, videoBlob, ffmpegLoaded, listeners, fs,
                 tresult, engineEvents, log, outcome, result, cancelAt, faults,
                 attempted, editorVars>>

RunStep ==
  \/ TextDone \/ CoverDone \/ Prepared \/ LoopStep \/ YieldDone \/ GraceDone
  \/ HostStopEvent \/ AfterStop
  \/ TLoad \/ TWriteVideo \/ TWriteAudio
  \/ TExecMp4 \/ TReadMp4 \/ TCleanMp4
  \/ TExecWebm \/ TReadWebm \/ TCleanWebm \/ TCleanFail
  \/ Finish

Next ==
  \/ StartExport
  \/ RunStep
  \/ StartExportSettled
  \/ Cancel
  \/ HostCapture \/ HostDataAvailable \/ HostEngineProgress

Spec == Init /\ [][Next]_vars

FairSpec == Spec /\ WF_vars(RunStep)

SpecRuns == InitRuns /\ [][Next]_vars

TypeOK ==
  /\ pc \in Suspended \cup {"idle", "prepared", "loop", "stopped", "t_return", "settled"}
  /\ run \in 0..MaxRuns
  /\ f \in 0..totalFrames
  /\ outcome \in {"none", "done", ErrCancelled, ErrNoRecorder, ErrCollaborator}

\* ------------------------------------------------------- export dialog
\* export's promise has settled and startExport's continuation is still to
\* run; no user event is handled in between
Settling == pc = "settled" /\ serviceRef # 0

\* ExportModal's isExporting
IsExporting(stage) == stage \notin {"idle", "done", "error"}

\* the Export button of the header, or the E key
OpenExportModal ==
  /\ ~Settling
  /\ ~showExportModal
  /\ showExportModal' = TRUE
  /\ UNCHANGED <<exportVars, rf, wav, recents, recentUses, trim, project, overlap>>

\* ExportModal.handleClose, the dialog's onOpenChange: ignored while
\* exporting, otherwise reset() and onClose()
HandleClose ==
  /\ ~Settling
  /\ showExportModal
  /\ ~IsExporting(hook.stage)
  /\ hook' = HookInitial
  /\ showExportModal' = FALSE
  /\ UNCHANGED <<config, runsAllowed, run, pc, cancelled, recorder, exportRenderer, tmCurrent,
                 overlayScene, disposals, f, audioWav, surface, dirty, updates, draws,
                 rec, observed, started, videoBlob, ffmpegLoaded, listeners, fs,
                 tresult, engineEvents, log, outcome, result, cancelAt, faults,
                 attempted, serviceRef, rf, wav, recents, recentUses, trim, project, overlap>>

\* the Escape key with the dialog open: the dialog asks handleClose, and
\* EditorPage's keydown handler sets showExportModal to false
PressEscape ==
  /\ ~Settling
  /\ showExportModal
  /\ hook' = IF IsExporting(hook.stage) THEN hook ELSE HookInitial
  /\ showExportModal' = FALSE
  /\ UNCHANGED <<config, runsAllowed, run, pc, cancelled, recorder, exportRenderer, tmCurrent,
                 overlayScene, disposals, f, audioWav, surface, dirty, updates, draws,
                 rec, observed, started, videoBlob, ffmpegLoaded, listeners, fs,
                 tresult, engineEvents, log, outcome, result, cancelAt, faults,
                 attempted, serviceRef, rf, wav, recents, recentUses, trim, project, overlap>>

\* the dialog's Start Export button, shown in stage idle
HandleExport ==
  /\ showExportModal
  /\ hook.stage = "idle"
  /\ StartExport

\* the dialog's Cancel button, shown while exporting
CancelButton ==
  /\ showExportModal
  /\ IsExporting(hook.stage)
  /\ Cancel

InitModal ==
  /\ EditorIdle
  /\ InitWith({c \in Configs : /\ c.inTime = 0 /\ c.outTime - c.inTime < MaxClipMs
                               /\ c.coverArtUrl
                               /\ c.options.format = "mp4"
                               /\ Len(c.reactiveFrames) = TotalFrames(c.inTime, c.outTime)},
              1)

NextModal ==
  \/ OpenExportModal \/ HandleClose \/ PressEscape
  \/ HandleExport \/ CancelButton
  \/ RunStep
  \/ StartExportSettled
  \/ HostCapture \/ HostDataAvailable \/ HostEngineProgress

SpecModal == InitModal /\ [][NextModal]_vars

\* ------------------------------------------------------ overlapping runs
\* Two runs started through useExport before the first has settled.  Each
\* has its own ExportService, renderer and recorder; serviceRef and the
\* transcoding engine with its file system are shared.  The content of a
\* file is the run that wrote it: <<r>> for an input written by run r,
\* <<v, a>> for an output muxed from the video of run v and the audio of
\* run a.
MaxCancels == 2

\* the continuation of a settled export() promise is about to run
OverlapSettling == \E r \in OverlapRuns : overlap.pc[r] = "returned"

\* startExport: a new service, stored in serviceRef
OverlapStartExport(r) ==
  /\ ~OverlapSettling
  /\ overlap.pc[r] = "new"
  /\ \A q \in OverlapRuns : q < r => overlap.pc[q] # "new"
  /\ overlap' = [overlap EXCEPT !.pc[r] = "rendering"]
  /\ serviceRef' = r
  /\ UNCHANGED <<runVars, showExportModal, rf, wav, recents, recentUses, trim, project>>

\* export() up to the transcode: this.cancelled ends the run
OverlapRender(r) ==
  /\ overlap.pc[r] = "rendering"
  /\ overlap' = [overlap EXCEPT !.pc[r] = IF overlap.cancelled[r] THEN "returned"
                                          ELSE "writeVideo"]
  /\ UNCHANGED <<exportVars, showExportModal, rf, wav, recents, recentUses, trim, project>>

\* ffmpeg.writeFile("video.webm", ...) and ffmpeg.writeFile("audio.wav", ...)
OverlapWriteFile(r) ==
  /\ overlap.pc[r] \in {"writeVideo", "writeAudio"}
  /\ overlap' =
       IF overlap.pc[r] = "writeVideo"
       THEN [overlap EXCEPT !.fs["video.webm"] = <<r>>, !.pc[r] = "writeAudio"]
       ELSE [overlap EXCEPT !.fs["audio.wav"] = <<r>>, !.pc[r] = "execMp4"]
  /\ UNCHANGED <<exportVars, showExportModal, rf, wav, recents, recentUses, trim, project>>

\* ffmpeg.exec([... "-i", "video.webm", "-i", "audio.wav", ..., output]):
\* the output is written when both inputs exist
OverlapExec(r) ==
  /\ overlap.pc[r] \in {"execMp4", "execWebm"}
  /\ LET out == IF overlap.pc[r] = "execMp4" THEN "output.mp4" ELSE "output.webm"
         video == overlap.fs["video.webm"]
         audio == overlap.fs["audio.wav"]
     IN overlap' =
          [overlap EXCEPT
             !.reads[r] = Append(@, <<video, audio>>),
             !.fs[out] = IF video # NoContent /\ audio # NoContent THEN video \o audio ELSE @,
             !.pc[r] = IF overlap.pc[r] = "execMp4" THEN "readMp4" ELSE "readWebm"]
  /\ UNCHANGED <<exportVars, showExportModal, rf, wav, recents, recentUses, trim, project>>

\* ffmpeg.readFile(output), which throws when the file does not exist, and
\* the catch block that follows
OverlapReadFile(r) ==
  /\ overlap.pc[r] \in {"readMp4", "readWebm"}
  /\ LET out == IF overlap.pc[r] = "readMp4" THEN "output.mp4" ELSE "output.webm"
     IN overlap' =
          IF overlap.fs[out] # NoContent
          THEN [overlap EXCEPT !.blob[r] = overlap.fs[out],
                               !.todo[r] = <<"video.webm", "audio.wav", out>>,
                               !.pc[r] = "cleanup"]
          ELSE IF overlap.pc[r] = "readMp4"
          THEN [overlap EXCEPT !.pc[r] = "execWebm"]
          ELSE [overlap EXCEPT !.blob[r] = <<r>>,
                               !.todo[r] = <<"video.webm", "audio.wav">>,
                               !.pc[r] = "cleanup"]
  /\ UNCHANGED <<exportVars, showExportModal, rf, wav, recents, recentUses, trim, project>>

\* cleanupFiles: one ffmpeg.deleteFile, and the return after the last
OverlapDeleteFile(r) ==
  /\ overlap.pc[r] = "cleanup"
  /\ overlap' = [overlap EXCEPT !.fs[Head(overlap.todo[r])] = NoContent,
                                !.todo[r] = Tail(@),
                                !.pc[r] = IF Len(overlap.todo[r]) = 1 THEN "returned" ELSE @]
  /\ UNCHANGED <<exportVars, showExportModal, rf, wav, recents, recentUses, trim, project>>

\* startExport after its export() settled: finally { serviceRef.current = null }
OverlapSettled(r) ==
  /\ overlap.pc[r] = "returned"
  /\ overlap' = [overlap EXCEPT !.pc[r] = "settled"]
  /\ serviceRef' = 0
  /\ UNCHANGED <<runVars, showExportModal, rf, wav, recents, recentUses, trim, project>>

\* the hook's cancel(): serviceRef.current?.cancel(); missed collects the
\* runs that had not settled and were not told
OverlapCancel ==
  /\ ~OverlapSettling
  /\ overlap.cancels < MaxCancels
  /\ overlap' =
       [overlap EXCEPT
          !.cancels = @ + 1,
          !.cancelled = [r \in OverlapRuns |-> @[r] \/ r = serviceRef],
          !.missed = @ \cup {r \in OverlapRuns :
                                 overlap.pc[r] \notin {"new", "settled"} /\ r # serviceRef}]
  /\ UNCHANGED <<exportVars, showExportModal, rf, wav, recents, recentUses, trim, project>>

InitOverlap ==
  /\ InitWith({CHOOSE c \in Configs : TRUE}, 0)
  /\ EditorIdle

NextOverlap ==
  \/ \E r \in OverlapRuns :
       \/ OverlapStartExport(r) \/ OverlapRender(r) \/ OverlapWriteFile(r)
       \/ OverlapExec(r) \/ OverlapReadFile(r) \/ OverlapDeleteFile(r)
       \/ OverlapSettled(r)
  \/ OverlapCancel

SpecOverlap == InitOverlap /\ [][NextOverlap]_vars

\* ------------------------------------------------- useTemplateFavorites
MAX_RECENTS == 6
MaxAdds == 7
RECURSIVE Without(_, _)
\* prev.filter((r) => r !== id)
Without(list, id) ==
  IF list = <<>> THEN <<>>
  ELSE IF Head(list) = id THEN Without(Tail(list), id)
  ELSE <<Head(list)>> \o Without(Tail(list), id)

\* list.slice(0, n)
Slice(list, n) == SubSeq(list, 1, IF Len(list) < n THEN Len(list) ELSE n)

AddRecentUnfiltered(prev, id) == Slice(<<id>> \o prev, MAX_RECENTS)

\* the updater addRecent gives to setRecents
AddRecentTo(prev, id) == Slice(<<id>> \o Without(prev, id), MAX_RECENTS)

InitRecents ==
  /\ InitWith({CHOOSE c \in Configs : TRUE}, 0)
  /\ EditorIdle

\* addRecent(id)
AddRecent ==
  /\ Len(recentUses) < MaxAdds
  /\ \E id \in 1..(MAX_RECENTS + 1) :
       /\ recents' = AddRecentTo(recents, id)
       /\ recentUses' = Append(recentUses, id)
  /\ UNCHANGED <<exportVars, showExportModal, rf, wav, trim, project, overlap>>

NextRecents == AddRecent

SpecRecents == InitRecents /\ [][NextRecents]_vars

\* ------------------------------------------------------- projectSerializer
VERSION == 1
NullTemplate == "null"   \* selectedTemplateId: null
NoClip == <<>>           \* clip: null
\* the editable part of useProjectStore's state; templateParams is an
\* object holding some of the keys
Stores ==
  [selectedTemplateId : {NullTemplate, "tunnel"},
   templateParams : UNION { [ks -> {1, 2}] : ks \in SUBSET {"speed", "glow"} },
   palette : {"phosphor", "ember"},
   intensityMultiplier : {1, 2},
   qualityTier : {"medium", "high"},
   clip : {NoClip, <<0, 10>>},
   overlay : [title : {"", "Song"}, textShadow : {TRUE}],
   audioFileName : {"null"}]

\* { ...a, ...b }
SpreadOver(a, b) ==
  [k \in DOMAIN a \cup DOMAIN b |-> IF k \in DOMAIN b THEN b[k] ELSE a[k]]

\* serialize(), for the store state s
Serialize(s) ==
  [version |-> VERSION,
   selectedTemplateId |-> s.selectedTemplateId,
   templateParams |-> s.templateParams,
   palette |-> s.palette,
   intensityMultiplier |-> s.intensityMultiplier,
   qualityTier |-> s.qualityTier,
   clip |-> s.clip,
   overlay |-> s.overlay,
   audioFileName |-> s.audioFileName]

\* the snapshots a project file can hold: what serialize() wrote, by this
\* version of the format or by another one
Snapshots == { [Serialize(s) EXCEPT !.version = v] : s \in Stores, v \in {VERSION, VERSION + 1} }

\* the store state after deserialize(snap) on the store state s
Deserialize(s, snap) ==
  IF snap.version # VERSION THEN s
  ELSE [s EXCEPT
          !.selectedTemplateId =
             IF snap.selectedTemplateId # NullTemplate THEN snap.selectedTemplateId ELSE @,
          !.templateParams = SpreadOver(@, snap.templateParams),
          !.palette = snap.palette,
          !.intensityMultiplier = snap.intensityMultiplier,
          !.qualityTier = snap.qualityTier,
          !.clip = IF snap.clip # NoClip THEN snap.clip ELSE @,
          !.overlay = SpreadOver(@, snap.overlay)]

\* a store in any state, before a snapshot is restored
InitProject ==
  /\ InitWith({CHOOSE c \in Configs : TRUE}, 0)
  /\ showExportModal = FALSE
  /\ rf = NotCalled
  /\ wav = NotCalled
  /\ recents = <<>>
  /\ recentUses = <<>>
  /\ trim = NotCalled
  /\ overlap = OverlapIdle
  /\ \E s \in Stores : project = [pc |-> "idle", prior |-> s, store |-> s, snap |-> Serialize(s)]

RestoreFromSnapshot ==
  /\ project.pc = "idle"
  /\ \E snap \in Snapshots :
       project' = [project EXCEPT !.pc = "restored", !.snap = snap,
                                  !.store = Deserialize(project.store, snap)]
  /\ UNCHANGED <<exportVars, showExportModal, rf, wav, recents, recentUses, trim, overlap>>

NextProject == RestoreFromSnapshot

SpecProject == InitProject /\ [][NextProject]_vars

\* ------------------------------------------------------- sanitizeClipRange
\* Times are whole milliseconds.  A Number argument is a record: a finite
\* value v, NaN, or an infinity with its sign in v.
MIN_TRIM_SPAN == 100        \* ms
MAX_TRIM_DURATION == 30000  \* ms

\* clamp(value, min, max)
ClampNumber(value, min, max) ==
  IF value.k # "finite" THEN min
  ELSE IF max < min THEN min
  ELSE LET lower == IF value.v > min THEN value.v ELSE min   \* Math.max(min, value)
       IN IF lower < max THEN lower ELSE max                 \* Math.min(max, ...)

WidenNever(r, safeDuration) == r

\* if (end - start < MIN_TRIM_SPAN) { end = Math.min(safeDuration, start +
\* MIN_TRIM_SPAN); start = Math.max(0, end - MIN_TRIM_SPAN) }
Widen(r, safeDuration) ==
  IF r[2] - r[1] < MIN_TRIM_SPAN
  THEN LET end == IF r[1] + MIN_TRIM_SPAN < safeDuration THEN r[1] + MIN_TRIM_SPAN
                  ELSE safeDuration
       IN <<IF end - MIN_TRIM_SPAN > 0 THEN end - MIN_TRIM_SPAN ELSE 0, end>>
  ELSE r

\* sanitizeClipRange(inTime, outTime, duration), as <<inTime, outTime>>
SanitizeClipRange(inTime, outTime, duration) ==
  LET safeDuration == IF duration > 0 THEN duration ELSE 0
      \* if (end < start) [start, end] = [end, start]
      Ordered(r) == IF r[2] < r[1] THEN <<r[2], r[1]>> ELSE r
      \* if (end - start > MAX_TRIM_DURATION) end = start + MAX_TRIM_DURATION
      Cap(r) == IF r[2] - r[1] > MAX_TRIM_DURATION THEN <<r[1], r[1] + MAX_TRIM_DURATION>>
                ELSE r
      \* if (end > safeDuration) { end = safeDuration; start = Math.max(0, end - MAX_TRIM_DURATION) }
      PullBack(r) ==
        IF r[2] > safeDuration
        THEN <<IF safeDuration - MAX_TRIM_DURATION > 0 THEN safeDuration - MAX_TRIM_DURATION
               ELSE 0,
               safeDuration>>
        ELSE r
  IN IF safeDuration <= 0 THEN <<0, 0>>
     ELSE PullBack(Cap(Widen(Ordered(<<ClampNumber(inTime, 0, safeDuration),
                                       ClampNumber(outTime, 0, safeDuration)>>),
                             safeDuration)))

\* what the trim handles, a stored clip or a project file can hand in:
\* finite values, NaN and the two infinities
TrimNumbers ==
  [k : {"finite"},
   v : {-50, 0, 50, MIN_TRIM_SPAN, 150, 1000, MAX_TRIM_DURATION - 50,
        MAX_TRIM_DURATION, MAX_TRIM_DURATION + 50, 31000, 40000, 40050, 45000}]
    \cup {[k |-> "nan", v |-> 0], [k |-> "infinity", v |-> 1], [k |-> "infinity", v |-> -1]}

\* handleTrimChange(newIn, newOut) on an editor with a decoded file
InitTrim ==
  /\ InitWith({CHOOSE c \in Configs : TRUE}, 0)
  /\ showExportModal = FALSE
  /\ rf = NotCalled
  /\ wav = NotCalled
  /\ recents = <<>>
  /\ recentUses = <<>>
  /\ project = NotCalled
  /\ overlap = OverlapIdle
  /\ \E newIn \in TrimNumbers, newOut \in TrimNumbers,
        d \in {50, MIN_TRIM_SPAN, 150, 1000, MAX_TRIM_DURATION, MAX_TRIM_DURATION + 50, 40000} :
       trim = [pc |-> "called", newIn |-> newIn, newOut |-> newOut,
               audioDuration |-> d, clip |-> <<0, 0>>]

HandleTrimChange ==
  /\ trim.pc = "called"
  /\ trim' = [trim EXCEPT !.pc = "returned",
                          !.clip = SanitizeClipRange(trim.newIn, trim.newOut, trim.audioDuration)]
  /\ UNCHANGED <<exportVars, showExportModal, rf, wav, recents, recentUses, project, overlap>>

NextTrim == HandleTrimChange

SpecTrim == InitTrim /\ [][NextTrim]_vars

\* ------------------------------------------------- ReactiveFeatureBuilder
\* Signal values are exact: a raw level is a multiple of 1/RawUnit, and a
\* value of a clip of T frames is an integer count of 1/Den(T), which the
\* smoothing of T frames keeps whole.  A quotient is a pair
\* <<numerator, denominator>>; <<0, 0>> is NaN.
MaxAudioMs == 100
RawUnit == 20
ATTACK_ALPHA == 8        \* tenths
RELEASE_ALPHA == 3       \* tenths
QUIET_THRESHOLD == 1     \* tenths
QUIET_TARGET_PEAK == 8   \* tenths
Bands == {"bass", "mid", "treble", "amplitude"}

RECURSIVE Pow10(_)
Pow10(k) == IF k = 0 THEN 1 ELSE 10 * Pow10(k - 1)

Den(T) == RawUnit * Pow10(T)

\* what the spectrum and the RMS window of one frame can give: band energies
\* and amplitude are non-negative, and all are 0 over silent samples
RawLevels == {0, 1, 12}
RawFrames ==
  { [bass |-> b, mid |-> mt[1], treble |-> mt[2], amplitude |-> a]
    : b \in RawLevels, a \in RawLevels, mt \in {<<0, 0>>, <<12, 1>>} }

BuilderTotalFramesFloor(inTime, outTime) == ((outTime - inTime) * FPS) \div 1000

\* const totalFrames = Math.ceil(clipDuration * FPS)
BuilderTotalFrames(inTime, outTime) == CeilDiv((outTime - inTime) * FPS, 1000)

\* x = prev + alpha * (x - prev), alpha by whether x rises
Smooth(raw, prev) ==
  LET alpha == IF raw > prev THEN ATTACK_ALPHA ELSE RELEASE_ALPHA
  IN prev + (alpha * (raw - prev)) \div 10

RECURSIVE SmoothedFrames(_, _, _)
\* the frames the analysis loop pushes, before normalization; prev holds
\* prevBass, prevMid, prevTreble, prevAmp
SmoothedFrames(raw, T, prev) ==
  IF raw = <<>> THEN <<>>
  ELSE LET cur == [b \in Bands |-> Smooth(Head(raw)[b] * Pow10(T), prev[b])]
       IN <<cur>> \o SmoothedFrames(Tail(raw), T, cur)

BandMaxFirstOnly(frames, b) ==
  IF frames # <<>> /\ frames[1][b] > 0 THEN frames[1][b] ELSE 0

\* let max = 0; for (const frame of frames) if (frame.b > max) max = frame.b
BandMax(frames, b) ==
  LET vs == {frames[i][b] : i \in 1..Len(frames)} \cup {0}
  IN CHOOSE m \in vs : \A v \in vs : v <= m

NormalizeNoGuard(v, max, den) == IF max = 0 THEN <<0, 0>> ELSE <<v, max>>

\* if (max > 0) frame.b /= max
Normalize(v, max, den) == IF max > 0 THEN <<v, max>> ELSE <<v, den>>

QuietAppliesAlways(maxAmp, den) == TRUE

\* maxAmp < QUIET_THRESHOLD
QuietApplies(maxAmp, den) == maxAmp * 10 < QUIET_THRESHOLD * den

\* Math.min(1, v * scale)
QuietScale(v) ==
  LET scaled == <<v[1] * QUIET_TARGET_PEAK, v[2] * 10>>
  IN IF scaled[1] > scaled[2] THEN <<1, 1>> ELSE scaled

\* the frames buildReactiveFrames returns for the smoothed frames sm
FinalFrames(sm, T) ==
  LET max == [b \in Bands |-> BandMax(sm, b)]
      quiet == QuietApplies(max["amplitude"], Den(T))
      final(k, b) == LET n == Normalize(sm[k][b], max[b], Den(T))
                     IN IF quiet THEN QuietScale(n) ELSE n
  IN [k \in 1..Len(sm) |->
        [time |-> <<k - 1, FPS>>, bass |-> final(k, "bass"), mid |-> final(k, "mid"),
         treble |-> final(k, "treble"), amplitude |-> final(k, "amplitude")]]

AudioRanges ==
  { <<i, i + d>> : i \in {0, 17}, d \in {1, 33, 34, MaxAudioMs} }

\* a call of buildReactiveFrames on a clip of a decoded buffer
InitAudio ==
  /\ InitWith({CHOOSE c \in Configs : TRUE}, 0)
  /\ showExportModal = FALSE
  /\ wav = NotCalled
  /\ recents = <<>>
  /\ recentUses = <<>>
  /\ trim = NotCalled
  /\ project = NotCalled
  /\ overlap = OverlapIdle
  /\ \E r \in AudioRanges :
       \E raw \in [1..BuilderTotalFrames(r[1], r[2]) -> RawFrames] :
         rf = [pc |-> "called", inTime |-> r[1], outTime |-> r[2], raw |-> raw,
               smoothed |-> <<>>, frames |-> <<>>]

BuildReactiveFrames ==
  /\ rf.pc = "called"
  /\ LET T == BuilderTotalFrames(rf.inTime, rf.outTime)
         sm == SmoothedFrames(SubSeq(rf.raw, 1, T), T, [b \in Bands |-> 0])
     IN rf' = [rf EXCEPT !.pc = "returned", !.smoothed = sm, !.frames = FinalFrames(sm, T)]
  /\ UNCHANGED <<exportVars, showExportModal, wav, recents, recentUses, trim, project, overlap>>

NextAudio == BuildReactiveFrames

SpecAudio == InitAudio /\ [][NextAudio]_vars

\* ------------------------------------------------- extractAudioSegment
\* Times are whole milliseconds and a sample value is a multiple of
\* 1/SampleUnit, so that 12 stands for 1.5 and -8 for -1.
MaxWavSamples == 4
SampleUnit == 8
WavSampleRate == 5
TimeStepMs == 50

\* a decoded buffer of c channels; neighbouring samples differ, and some
\* lie outside [-1, 1]
BufferOf(c, variant) ==
  [ch \in 1..c |-> [i \in 1..MaxWavSamples |-> ((i * 5 + ch * 3 + variant * 7) % 25) - 12]]

\* Math.floor(t * sampleRate), t in milliseconds
SampleIndex(t, sampleRate) == (t * sampleRate) \div 1000

\* channelData[index] ?? 0 (index 0-based)
SampleAt(channelData, index) ==
  IF index + 1 \in DOMAIN channelData THEN channelData[index + 1] ELSE 0

ClampNone(sample) == sample

\* Math.max(-1, Math.min(1, sample))
Clamp(sample) ==
  IF sample > SampleUnit THEN SampleUnit
  ELSE IF sample < -SampleUnit THEN -SampleUnit ELSE sample

\* clamped < 0 ? clamped * 0x8000 : clamped * 0x7fff, in units of 1/SampleUnit
Scaled(clamped) == IF clamped < 0 THEN clamped * 32768 ELSE clamped * 32767

\* the integer part of n/d, which is what ToInt16 keeps of a Number
TruncDiv(n, d) == IF n >= 0 THEN n \div d ELSE -((-n) \div d)

\* ToInt16: modulo 2^16, read as signed
Int16(x) == ((x + 32768) % 65536) - 32768

\* view.setInt16(offset, int16, true): the value the file holds for sample
Stored(sample) == Int16(TruncDiv(Scaled(Clamp(sample)), SampleUnit))

\* the WAV file extractAudioSegment builds
EncodeWav(buffer, sampleRate, inTime, outTime) ==
  LET channels == Len(buffer)
      startSample == SampleIndex(inTime, sampleRate)
      endSample == SampleIndex(outTime, sampleRate)
      length == endSample - startSample
      dataSize == length * channels * 2
      totalSize == 44 + dataSize
  IN [chunkSize |-> totalSize - 8,
      numChannels |-> channels,
      sampleRate |-> sampleRate,
      byteRate |-> sampleRate * channels * 2,
      blockAlign |-> channels * 2,
      bitsPerSample |-> 2 * 8,
      dataSize |-> dataSize,
      samples |-> [p \in 1..(length * channels) |->
                     Stored(SampleAt(buffer[((p - 1) % channels) + 1],
                                     startSample + ((p - 1) \div channels)))]]

WavTimes == { k * TimeStepMs : k \in 0..((MaxWavSamples * 1000) \div (WavSampleRate * TimeStepMs)) }

\* a call of extractAudioSegment on a range of a decoded buffer
InitWav ==
  /\ InitWith({CHOOSE c \in Configs : TRUE}, 0)
  /\ showExportModal = FALSE
  /\ rf = NotCalled
  /\ recents = <<>>
  /\ recentUses = <<>>
  /\ trim = NotCalled
  /\ project = NotCalled
  /\ overlap = OverlapIdle
  /\ \E c \in 1..2, variant \in 0..4, inTime \in WavTimes, outTime \in WavTimes :
       /\ inTime < outTime
       /\ wav = [pc |-> "called", buffer |-> BufferOf(c, variant), sampleRate |-> WavSampleRate,
                 inTime |-> inTime, outTime |-> outTime, out |-> <<>>]

ExtractSegment ==
  /\ wav.pc = "called"
  /\ wav' = [wav EXCEPT !.pc = "returned",
                        !.out = EncodeWav(wav.buffer, wav.sampleRate, wav.inTime, wav.outTime)]
  /\ UNCHANGED <<exportVars, showExportModal, rf, recents, recentUses, trim, project, overlap>>

NextWav == ExtractSegment

SpecWav == InitWav /\ [][NextWav]_vars

\* ================================================================ claims
PostLoop == Suspended \ {"awaitText", "awaitCover", "yield"}

Mp4Failed == faults \cap {"execMp4", "readMp4"} # {}
WebmFailed == faults \cap {"execWebm", "readWebm"} # {}
PreparingFaults == {"init", "text", "extract"}
RenderingFaults == {"mime", "update"}

\* C1: a run in which cancel() was called while it was preparing, rendering
\* or transcoding (and in which no collaborator failed) settles as
\* 'Export cancelled', never with a result and never with another error.
C1_CancelYieldsCancelled ==
  (pc = "settled" /\ cancelAt # "none" /\ faults = {}) => outcome = ErrCancelled

\* C2: on every exit of export() the template, the overlay system and the
\* export renderer have each been disposed exactly once, and the service
\* holds no renderer and no recording recorder.
C2_ReleasedOnEveryExit ==
  pc = "settled" =>
    /\ disposals = [template |-> 1, overlay |-> 1, renderer |-> 1]
    /\ exportRenderer = "null"
    /\ ~(recorder = "set" /\ rec.mrState = "recording")

\* C3: every export() run eventually settles, whenever cancel() is called,
\* given that the host delivers the recorder's stop event and every awaited
\* call returns (the fairness of FairSpec).
C3_EventuallySettles == (pc \notin {"idle", "settled"}) ~> (pc = "settled")

\* C4: the attempts are tried in fixed order: MP4 success gives format mp4
\* without warning and the WebM attempt is not run; MP4 failure followed by
\* WebM success gives format webm with a non-empty warning; failure of both
\* gives exactly the captured video blob, format webm, and the warning that
\* audio was dropped.
C4_FallbackOrder ==
  /\ "webm" \in attempted => ("mp4" \in attempted /\ Mp4Failed)
  /\ pc = "t_return" =>
       /\ ("mp4" \in attempted /\ ~Mp4Failed) =>
            /\ tresult.format = "mp4"
            /\ tresult.warning = None
            /\ "webm" \notin attempted
       /\ (Mp4Failed /\ "webm" \in attempted /\ ~WebmFailed) =>
            /\ tresult.format = "webm"
            /\ tresult.warning \notin {None, ""}
       /\ (Mp4Failed /\ WebmFailed) =>
            /\ tresult.blob = videoBlob
            /\ tresult.format = "webm"
            /\ tresult.warning = WarnNoAudio

C4_Witness ==
  /\ pc = "t_return"
  /\ Mp4Failed /\ "webm" \in attempted /\ ~WebmFailed
  /\ tresult.format = "webm"
  /\ tresult.blob = Mux("webm", videoBlob, audioWav)

\* C5: transcodeToMp4 never rejects, whatever fails; when the engine cannot
\* be initialised it resolves to the original video bytes, format webm and a
\* warning, as when both attempts fail; export() then ends in done.
C5_TranscodeNeverRejects ==
  /\ tresult # Rejected
  /\ pc = "t_return" => tresult.format \in {"mp4", "webm"}
  /\ (pc = "t_return" /\ "load" \in faults) =>
       /\ tresult.blob = videoBlob
       /\ tresult.format = "webm"
       /\ tresult.warning \notin {None, ""}
  /\ (pc = "settled" /\ tresult # NoTranscode) => outcome = "done"

C5_Witness ==
  /\ pc = "settled"
  /\ "load" \in faults
  /\ outcome = "done"
  /\ result.blob = videoBlob
  /\ result.warning # None

\* C6: the recorder observes every drawn frame: when the surface of frame
\* f+1 has replaced that of frame f, the recorder has captured frame f.
C6_EveryFrameObserved ==
  \A k \in 0..(surface - 1) : \E i \in 1..Len(observed) : observed[i] = k

\* the update the claim expects for frame index k
C7_Expected(k) ==
  [f |-> k,
   frame |-> IF k + 1 <= Len(config.reactiveFrames)
             THEN config.reactiveFrames[k + 1]
             ELSE [time |-> <<k, 30>>, bass |-> 0, mid |-> 0, treble |-> 0,
                   amplitude |-> 0, kick |-> FALSE, onset |-> FALSE, kickIntensity |-> 0],
   delta |-> <<1, 30>>]

\* C7: the template is updated and drawn exactly once per frame index, in
\* increasing order, with delta 1/30 and reactiveFrames[f] or the zeroed
\* default; once the loop has completed (always, in a run that is not
\* cancelled and in which nothing fails) that is every index below
\* totalFrames; a too-short reactiveFrames causes no error.
C7_EveryFrameOnce ==
  /\ \A i \in 1..Len(updates) : updates[i] = C7_Expected(i - 1)
  /\ draws = [i \in 1..Len(updates) |-> i - 1]
  /\ (pc \in PostLoop \cup {"stopped", "t_return"} \/ outcome = "done") =>
       Len(updates) = totalFrames
  /\ (pc = "settled" /\ cancelAt = "none"
        /\ faults \cap (PreparingFaults \cup RenderingFaults) = {}) =>
       Len(updates) = totalFrames
  /\ outcome \in {ErrCollaborator, ErrNoRecorder} => faults # {}

C7_Witness ==
  /\ pc = "settled"
  /\ outcome = "done"
  /\ cancelAt = "none"
  /\ Len(config.reactiveFrames) < totalFrames
  /\ Len(updates) = totalFrames
  /\ updates[totalFrames].frame.bass = 0

\* C8: after a cancel() issued in preparing the recorder is never started
\* and no frame is updated or drawn, and the run ends as cancelled (unless
\* the overlay pre-render or the audio encoding itself throws).
C8_CancelInPreparing ==
  cancelAt = "preparing" =>
    /\ ~started
    /\ rec.mrState = "none"
    /\ updates = <<>> /\ draws = <<>>
    /\ pc \in {"awaitText", "awaitCover", "prepared", "settled"}
    /\ pc = "settled" =>
         \/ outcome = ErrCancelled
         \/ outcome = ErrCollaborator /\ faults \cap {"text", "extract"} # {}

C8_Witness ==
  /\ cancelAt = "preparing"
  /\ pc = "settled"
  /\ outcome = ErrCancelled
  /\ audioWav.kind = "wav"

StageRank(st) ==
  CASE st = "preparing" -> 1 [] st = "rendering" -> 2 [] st = "transcoding" -> 3
    [] st = "done" -> 4 [] OTHER -> 0

\* C9: the stages delivered to a run's onProgress never go backwards, 'done'
\* is delivered at most once and nothing is delivered after it, also when a
\* later run transcodes on the shared engine.
C9_ProgressOrder ==
  \A r \in 1..MaxRuns :
    \A i \in 1..Len(log[r]) : \A j \in 1..Len(log[r]) :
      i < j => /\ StageRank(log[r][i].stage) <= StageRank(log[r][j].stage)
               /\ log[r][i].stage # "done"

\* C10: a run without cancellation and without any failure ends in done with
\* format mp4, no warning, duration outTime - inTime and a filename whose
\* extension is the format.
C10_CleanRunSucceeds ==
  (pc = "settled" /\ cancelAt = "none" /\ faults = {}) =>
    /\ outcome = "done"
    /\ result.format = "mp4"
    /\ result.warning = None
    /\ result.duration = config.outTime - config.inTime
    /\ result.filename[2] = result.format
    /\ result.blob = Mux("mp4", videoBlob, audioWav)

C10_Witness ==
  /\ pc = "settled"
  /\ cancelAt = "none"
  /\ faults = {}
  /\ outcome = "done"
  /\ result.format = "mp4"

\* C11: buildReactiveFrames returns exactly ceil((outTime - inTime) * 30)
\* frames for the range, export() computes the same totalFrames for that
\* range, and so every frame index of the export selects an extracted frame,
\* none the zeroed default.
C11_FrameCountsAgree ==
  rf.pc = "returned" =>
    LET d == rf.outTime - rf.inTime
        n == Len(rf.frames)
    IN /\ n * 1000 >= d * 30
       /\ (n - 1) * 1000 < d * 30
       /\ n = TotalFrames(rf.inTime, rf.outTime)
       /\ \A k \in 0..(TotalFrames(rf.inTime, rf.outTime) - 1) :
            /\ k < n
            /\ SelectFrame(rf.frames, k) = rf.frames[k + 1]

\* a range whose frame count is rounded up, analysed
C11_Witness ==
  /\ rf.pc = "returned"
  /\ ((rf.outTime - rf.inTime) * 30) % 1000 # 0
  /\ Len(rf.frames) >= 2

InUnit(v) == v[2] > 0 /\ 0 <= v[1] /\ v[1] <= v[2]

QuietClip == QuietApplies(BandMax(rf.smoothed, "amplitude"), Den(Len(rf.smoothed)))

\* C12: every bass, mid, treble and amplitude value of every returned frame
\* is a number in [0, 1], whether or not the quiet-audio step ran.
C12_ValuesInUnitRange ==
  rf.pc = "returned" =>
    \A k \in 1..Len(rf.frames) : \A b \in Bands : InUnit(rf.frames[k][b])

\* a quiet clip that gets louder after its first frame, analysed
C12_Witness ==
  /\ rf.pc = "returned"
  /\ Len(rf.frames) >= 2
  /\ QuietClip
  /\ \A b \in Bands : rf.smoothed[2][b] > rf.smoothed[1][b] /\ rf.smoothed[1][b] > 0

Silent == \A k \in 1..Len(rf.raw) : \A b \in Bands : rf.raw[k][b] = 0

\* C13: for a silent clip every bass, mid, treble and amplitude value of
\* every returned frame is exactly 0: the zero maxima are not divided by,
\* and no value is NaN or infinite.
C13_SilenceGivesZeros ==
  (rf.pc = "returned" /\ Silent) =>
    \A k \in 1..Len(rf.frames) : \A b \in Bands :
      rf.frames[k][b][1] = 0 /\ rf.frames[k][b][2] > 0

\* a silent clip of several frames, analysed
C13_Witness ==
  /\ rf.pc = "returned"
  /\ Silent
  /\ Len(rf.frames) >= 2

\* the largest smoothed value of band b
PeakOf(b) ==
  CHOOSE m \in {rf.smoothed[k][b] : k \in 1..Len(rf.smoothed)} :
    \A k \in 1..Len(rf.smoothed) : rf.smoothed[k][b] <= m

\* the peak smoothed amplitude is at least 0.1
LoudClip == rf.smoothed # <<>> /\ PeakOf("amplitude") * 10 >= Den(Len(rf.smoothed))

\* C14: in a clip whose peak smoothed amplitude reaches the quiet threshold,
\* in each band whose maximum is not zero the frame holding the maximum has
\* the final value exactly 1, and every frame's final value is its smoothed
\* value divided by that maximum.
C14_LoudClipNormalized ==
  (rf.pc = "returned" /\ LoudClip) =>
    \A b \in Bands :
      PeakOf(b) > 0 =>
        \A k \in 1..Len(rf.frames) :
          /\ rf.frames[k][b] = <<rf.smoothed[k][b], PeakOf(b)>>
          /\ rf.smoothed[k][b] = PeakOf(b) =>
               rf.frames[k][b][1] = rf.frames[k][b][2] /\ rf.frames[k][b][2] > 0

\* a loud transient in the second of three frames, analysed
C14_Witness ==
  /\ rf.pc = "returned"
  /\ LoudClip
  /\ Len(rf.frames) >= 3
  /\ rf.smoothed[2]["amplitude"] > rf.smoothed[1]["amplitude"]
  /\ rf.smoothed[2]["amplitude"] > rf.smoothed[3]["amplitude"]
  /\ rf.smoothed[1]["amplitude"] > 0

KICK_THRESHOLD == 12         \* hundredths
KICK_COOLDOWN_FRAMES == 4

\* frame k of the returned sequence has kick = true
HasKick(k) == "kick" \in DOMAIN rf.frames[k] /\ rf.frames[k].kick = TRUE

\* the smoothed bass of frame k exceeds that of frame k - 1 by more than
\* the kick threshold
BassJump(k) ==
  (rf.smoothed[k]["bass"] - rf.smoothed[k - 1]["bass"]) * 100
    > KICK_THRESHOLD * Den(Len(rf.smoothed))

\* C15: in the returned frames two kicks are never fewer than
\* KICK_COOLDOWN_FRAMES frames apart, and a frame whose smoothed bass jumps
\* by more than the kick threshold, with no kick in the cooldown before it,
\* has kick = true.
C15_KicksSpacedAndDetected ==
  rf.pc = "returned" =>
    /\ \A i, j \in 1..Len(rf.frames) :
         (i < j /\ HasKick(i) /\ HasKick(j)) => j - i >= KICK_COOLDOWN_FRAMES
    /\ \A k \in 2..Len(rf.frames) :
         (/\ BassJump(k)
          /\ \A i \in 1..(k - 1) : HasKick(i) => k - i >= KICK_COOLDOWN_FRAMES)
         => HasKick(k)

\* Math.round(t * sampleRate), t in milliseconds
RoundedIndex(t, sampleRate) == (2 * t * sampleRate + 1000) \div 2000

\* C16: the file holds exactly the samples with indices in
\* [round(inTime * sampleRate), round(outTime * sampleRate)) of each channel,
\* interleaved by channel in sample order; its data size is that number of
\* samples * channels * 2 and its ChunkSize is 36 + the data size.
C16_EncodesRoundedRange ==
  wav.pc = "returned" =>
    LET channels == Len(wav.buffer)
        first == RoundedIndex(wav.inTime, wav.sampleRate)
        n == RoundedIndex(wav.outTime, wav.sampleRate) - first
    IN /\ Len(wav.out.samples) = n * channels
       /\ \A i \in 0..(n - 1) : \A ch \in 1..channels :
            wav.out.samples[i * channels + ch] = Stored(wav.buffer[ch][first + i + 1])
       /\ wav.out.dataSize = n * channels * 2
       /\ wav.out.chunkSize = 36 + wav.out.dataSize

\* the sample the file position p (1-based) was encoded from
OriginalOf(p) ==
  LET channels == Len(wav.buffer)
  IN SampleAt(wav.buffer[((p - 1) % channels) + 1],
              SampleIndex(wav.inTime, wav.sampleRate) + ((p - 1) \div channels))

Abs(x) == IF x < 0 THEN -x ELSE x

\* decoding v (v / 0x8000 below zero, v / 0x7fff otherwise) is within one
\* 16-bit step of sample
DecodesTo(v, sample) ==
  IF v < 0 THEN Abs(v * SampleUnit - sample * 32768) <= SampleUnit
  ELSE Abs(v * SampleUnit - sample * 32767) <= SampleUnit

\* the value handed to setInt16 for the sample at position p needs no wrap-around
FitsInt16(p) ==
  LET x == TruncDiv(Scaled(Clamp(OriginalOf(p))), SampleUnit)
  IN x >= -32768 /\ x <= 32767 /\ wav.out.samples[p] = x

\* C17 as stated: every stored value fits in a signed 16-bit integer without
\* wrap-around, and decoding it reproduces the original sample within one
\* 16-bit quantization step.
C17_RoundTripOriginal ==
  wav.pc = "returned" =>
    \A p \in 1..Len(wav.out.samples) :
      FitsInt16(p) /\ DecodesTo(wav.out.samples[p], OriginalOf(p))

\* C17 amended: every stored value fits in a signed 16-bit integer without
\* wrap-around, and decoding it reproduces the original sample clamped to
\* [-1, 1] within one 16-bit quantization step.
C17_RoundTripClamped ==
  wav.pc = "returned" =>
    \A p \in 1..Len(wav.out.samples) :
      FitsInt16(p) /\ DecodesTo(wav.out.samples[p], Clamp(OriginalOf(p)))

\* a segment holding a sample above 1, one below -1 and a fractional one, encoded
C17_Witness ==
  /\ wav.pc = "returned"
  /\ \E p \in 1..Len(wav.out.samples) : OriginalOf(p) > SampleUnit
  /\ \E p \in 1..Len(wav.out.samples) : OriginalOf(p) < -SampleUnit
  /\ \E p \in 1..Len(wav.out.samples) :
       OriginalOf(p) > 0 /\ OriginalOf(p) < SampleUnit
         /\ (OriginalOf(p) * 32767) % SampleUnit # 0

\* C18: when transcodeToMp4 returns, by whichever branch, none of the files
\* the call wrote to the engine's file system (video.webm, audio.wav,
\* output.mp4, output.webm, a partial output included) still exists; runs
\* in which a deleteFile itself failed are left aside.
C18_NoTempFilesLeft ==
  (pc = "t_return" /\ "delete" \notin faults) => \A n \in FileNames : fs[n] = NoFile

\* C19: when the recorder cannot be started, export() rejects with
\* 'MediaRecorder not supported', which is not the cancellation message,
\* before any frame was updated or drawn and without starting the recorder
\* again, and useExport is left in stage 'error' with that message as its
\* error, never in 'done' or 'idle'.
C19_RecorderFailureReported ==
  (pc = "settled" /\ serviceRef = 0 /\ "mime" \in faults) =>
    /\ outcome = ErrNoRecorder
    /\ outcome # ErrCancelled
    /\ updates = <<>> /\ draws = <<>>
    /\ ~started /\ rec.mrState = "none"
    /\ hook.stage = "error"
    /\ hook.error = ErrNoRecorder /\ hook.message = ErrNoRecorder
    /\ hook.result = NoResult

\* a run that reached the recorder start, which failed
C19_Witness ==
  /\ pc = "settled"
  /\ serviceRef = 0
  /\ "mime" \in faults
  /\ audioWav # NoBlob
  /\ Len(log[run]) >= 2

\* C20: a run the user cancelled through useExport (no collaborator having
\* failed) leaves the hook in its pre-export state: stage 'idle', progress
\* 0, no result, no error; never 'error' or 'done'.
C20_CancelRestoresIdle ==
  (pc = "settled" /\ serviceRef = 0 /\ cancelAt # "none" /\ faults = {}) => hook = HookInitial

\* the value of band b in frame k after the per-band normalization
NormalizedValue(k, b) ==
  IF PeakOf(b) > 0 THEN <<rf.smoothed[k][b], PeakOf(b)>>
  ELSE <<rf.smoothed[k][b], Den(Len(rf.smoothed))>>

\* x >= y for quotients with positive denominators
FracGeq(x, y) ==
  IF x[2] = y[2] THEN x[1] >= y[1]
  ELSE IF x[2] = 10 * y[2] THEN x[1] >= 10 * y[1]
  ELSE x[1] * y[2] >= y[1] * x[2]

\* the peak smoothed amplitude is below 0.1
BelowQuietThreshold ==
  rf.smoothed # <<>> /\ PeakOf("amplitude") * 10 < Den(Len(rf.smoothed))

\* C26: in a clip whose peak smoothed amplitude is below the quiet threshold
\* the quiet-audio step applies one scale to all four signals of every
\* frame, and it is a boost: no value ends lower than it was after the
\* per-band normalization, and none exceeds 1.
C26_QuietStepBoosts ==
  (rf.pc = "returned" /\ BelowQuietThreshold) =>
    /\ \E s \in 1..30 :
         \A k \in 1..Len(rf.frames) : \A b \in Bands :
           rf.frames[k][b] = MinOne(<<NormalizedValue(k, b)[1] * s, NormalizedValue(k, b)[2] * 10>>)
    /\ \A k \in 1..Len(rf.frames) : \A b \in Bands :
         /\ FracGeq(rf.frames[k][b], NormalizedValue(k, b))
         /\ rf.frames[k][b][1] <= rf.frames[k][b][2]

\* C23: every ExportProgress value given to onProgress has
\* 0 <= progress <= 1, whatever the frame count and whatever progress the
\* engine reported; within the rendering stage progress never decreases and
\* currentFrame never exceeds totalFrames.
C23_ProgressInUnitRange ==
  \A r \in 1..MaxRuns :
    /\ \A i \in 1..Len(log[r]) :
         /\ 0 <= log[r][i].progress[1]
         /\ log[r][i].progress[1] <= log[r][i].progress[2]
         /\ log[r][i].stage = "rendering" => log[r][i].currentFrame <= log[r][i].totalFrames
    /\ \A i \in 1..Len(log[r]) : \A j \in 1..Len(log[r]) :
         (i < j /\ log[r][i].stage = "rendering" /\ log[r][j].stage = "rendering") =>
           log[r][i].progress[1] * log[r][j].progress[2]
             <= log[r][j].progress[1] * log[r][i].progress[2]

\* C21: a successful result that carries no warning has the format that
\* options.format requested, for a requested mp4 and for a requested webm.
C21_FormatAsRequested ==
  (pc = "settled" /\ outcome = "done" /\ result.warning = None) =>
    result.format = config.options.format

\* C28: in every state of the useExport hook, stage 'done' implies a result
\* and stage 'error' implies an error, also between the service's final
\* 'done' progress callback and the settling of the export promise.
C28_DoneHasResult ==
  /\ hook.stage = "done" => hook.result # NoResult
  /\ hook.stage = "error" => hook.error # "null"

\* C29: while the export is preparing, rendering or transcoding, no step
\* closes the export dialog: an open dialog stays open until the stage is
\* idle, done or error.
C29_DialogStaysOpen ==
  [][(showExportModal /\ IsExporting(hook.stage)) => showExportModal']_vars

\* the position of the last use of id in recentUses, 0 if it was never used
LastUse(id) ==
  LET at == {i \in 1..Len(recentUses) : recentUses[i] = id}
  IN IF at = {} THEN 0 ELSE CHOOSE i \in at : \A j \in at : j <= i

UsedIds == {recentUses[i] : i \in 1..Len(recentUses)}

\* C24: after any sequence of addRecent calls on an empty list, recents
\* holds at most 6 ids and none twice, its first id is the one added last,
\* and its ids are the most recently used ones in the order of their last
\* use.
C24_RecentsOrdered ==
  /\ Len(recents) <= 6
  /\ Len(recents) = (IF Cardinality(UsedIds) < 6 THEN Cardinality(UsedIds) ELSE 6)
  /\ \A i, j \in 1..Len(recents) : i < j => LastUse(recents[i]) > LastUse(recents[j])
  /\ \A i \in 1..Len(recents) : recents[i] \in UsedIds
  /\ \A id \in UsedIds :
       (\A i \in 1..Len(recents) : recents[i] # id) =>
         \A i \in 1..Len(recents) : LastUse(id) < LastUse(recents[i])
  /\ recentUses # <<>> => recents[1] = recentUses[Len(recentUses)]

\* seven different templates were used
C24_Witness ==
  /\ Len(recentUses) >= 7
  /\ Cardinality(UsedIds) = 7
  /\ Len(recents) = 6

SnapshotFields ==
  {"selectedTemplateId", "templateParams", "palette", "intensityMultiplier",
   "qualityTier", "clip", "overlay"}

\* C25: after restoreFromSnapshot(s) of a version-1 snapshot, whatever the
\* store held before, the store's selectedTemplateId, templateParams,
\* palette, intensityMultiplier, qualityTier, clip and overlay equal those
\* of s, and serialising again yields s; a snapshot of another version
\* leaves the store unchanged.
C25_RestoreYieldsSnapshot ==
  project.pc = "restored" =>
    IF project.snap.version = VERSION
    THEN /\ \A fld \in SnapshotFields : project.store[fld] = project.snap[fld]
         /\ Serialize(project.store) = project.snap
    ELSE project.store = project.prior

\* the arguments were already a valid range of at least the minimum span
AlreadyValid ==
  /\ trim.newIn.k = "finite" /\ trim.newOut.k = "finite"
  /\ 0 <= trim.newIn.v
  /\ trim.newIn.v < trim.newOut.v
  /\ trim.newOut.v <= trim.audioDuration
  /\ trim.newOut.v - trim.newIn.v >= 100
  /\ trim.newOut.v - trim.newIn.v <= 30000

\* C27: for every inTime and outTime, reversed, negative, out of range or
\* non-finite, and every source duration > 0, the range sanitizeClipRange
\* returns has 0 <= inTime < outTime <= duration and is at most 30 s long,
\* and an already valid range of at least 0.1 s is returned unchanged.
C27_SanitizedRangeValid ==
  (trim.pc = "returned" /\ trim.audioDuration > 0) =>
    /\ 0 <= trim.clip[1]
    /\ trim.clip[1] < trim.clip[2]
    /\ trim.clip[2] <= trim.audioDuration
    /\ trim.clip[2] - trim.clip[1] <= 30000
    /\ AlreadyValid => trim.clip = <<trim.newIn.v, trim.newOut.v>>

\* an in handle beyond the end of a file longer than 30 s and a NaN out
\* handle, sanitized to the file's first 30 s
C27_Witness ==
  /\ trim.pc = "returned"
  /\ trim.audioDuration > 30000
  /\ trim.newIn.k = "finite" /\ trim.newIn.v > trim.audioDuration
  /\ trim.newOut.k = "nan"
  /\ trim.clip = <<0, 30000>>

\* C22: when two export runs overlap, the temporary transcode files of one
\* run are never read, overwritten or deleted by the other: every exec of a
\* run reads the video and the audio that the same run wrote, and the bytes
\* a run's transcode returns were muxed from its own inputs.
C22_RunsKeepTheirFiles ==
  \A r \in OverlapRuns :
    /\ \A i \in 1..Len(overlap.reads[r]) : overlap.reads[r][i] = << <<r>>, <<r>> >>
    /\ (overlap.pc[r] \in {"cleanup", "returned", "settled"} /\ overlap.blob[r] # NoContent) =>
         overlap.blob[r] = <<r, r>>

\* C30: a cancel() called through the hook while an export run started
\* through it has not yet settled reaches that run: no unsettled run is
\* left out, also when startExport was called again before an earlier run
\* settled and after the earlier of two overlapping runs has finished.
C30_CancelReachesRun == overlap.missed = {}

====
